---- MODULE Spec2Model ----
(***************************************************************************)
(* Model of the NordVPN tray indicator: the NordVPNStatus record and its   *)
(* parser (nordvpn.py), the NordVPN facade over the external command, and  *)
(* the Indicator's polling timer (nordvpn_indicator.py).                   *)
(*                                                                         *)
(* Text is a sequence of tokens.  A token is a word (a maximal run of      *)
(* characters holding neither white space nor ':'), the character ":" or   *)
(* one white-space character.  Substring search, the regular expressions   *)
(* and str.strip() are computed on these sequences.                        *)
(***************************************************************************)
EXTENDS Naturals, Sequences, FiniteSets, Bags

VARIABLES
    status,       \* NordVPN.status: the NordVPNStatus object
    op,           \* name of the operation that ran last
    arg,          \* text handed to / produced for the operation that ran last
    raised,       \* TRUE iff the operation that ran last raised to its caller
    hasWarnings,  \* value returned by the last _output_has_warnings call
    warningsBefore, \* status.warnings when the operation that ran last began
    settings,     \* what the last get_settings call returned, or had built
                  \* when it raised
    timer,        \* Indicator.timer: "none", "armed", "fired", "cancelled"
    mainloop,     \* the application: "init", "running", "crashed", "quit"
    status_label, \* text of Indicator.status_label
    icon,         \* icon file shown by Indicator.indicator
    request,      \* the mapping handed to the last set_settings call
    commands,     \* the commands that call handed to _run_command, in order
    words,        \* the list the last get_countries/get_cities/get_groups
                  \* call returned
    poll,         \* the status_check_loop running on the timer thread: where
                  \* it is (pc), its local raw text, the warnings its test
                  \* saw (tested) and the warnings it joined (appended)
    menu          \* the menu callback running on the GTK thread between its
                  \* disconnect and its connect, or "idle"

vars == <<status, op, arg, raised, hasWarnings, warningsBefore, settings,
          timer, mainloop, status_label, icon, request, commands, words,
          poll, menu>>

(***************************************************************************)
(* Bounds of the model.                                                    *)
(***************************************************************************)
\* Largest number of lines in a status text handed to NordVPNStatus.update.
MaxLines == 3

(***************************************************************************)
(* Text helpers.                                                           *)
(***************************************************************************)
\* Characters str.strip() removes and the regular expression \s matches.
WS == {" ", "\n", "\r", "\t"}

\* An optional text: Python's None, or a str.
None == [isNone |-> TRUE, str |-> <<>>]
Some(s) == [isNone |-> FALSE, str |-> s]

\* p occurs in s at position i.
OccursAt(p, s, i) ==
    /\ i >= 1
    /\ i + Len(p) - 1 <= Len(s)
    /\ SubSeq(s, i, i + Len(p) - 1) = p

\* Python's "p in s" on strings.
IsSubstring(p, s) == \E i \in 1..(Len(s) + 1) : OccursAt(p, s, i)

\* str.strip(): white space removed at both ends.
Strip(s) ==
    LET keep == {i \in 1..Len(s) : s[i] \notin WS}
    IN  IF keep = {} THEN <<>>
        ELSE LET lo == CHOOSE i \in keep : \A j \in keep : i <= j
                 hi == CHOOSE i \in keep : \A j \in keep : j <= i
             IN  SubSeq(s, lo, hi)

\* The regular expression (.*) from position j: the longest run without "\n".
RestOfLine(s, j) ==
    LET stops == {k \in j..Len(s) : s[k] = "\n"}
        end   == IF stops = {} THEN Len(s)
                 ELSE (CHOOSE k \in stops : \A m \in stops : k <= m) - 1
    IN  SubSeq(s, j, end)

(***************************************************************************)
(* class ConnectionStatus, class NordVPNStatus.Param                       *)
(***************************************************************************)
CONNECTED == "CONNECTED"
DISCONNECTED == "DISCONNECTED"
WAITING == "WAITING"

\* ConnectionStatus(value): the member with that value; raises ValueError
\* when there is none.
ConnectionStatus(value) ==
    IF value = <<"Connected">> THEN [raised |-> FALSE, value |-> CONNECTED]
    ELSE IF value = <<"Disconnected">> THEN [raised |-> FALSE, value |-> DISCONNECTED]
    ELSE IF value = <<"Connecting">> THEN [raised |-> FALSE, value |-> WAITING]
    ELSE [raised |-> TRUE, value |-> WAITING]

\* Mutant: STATUS is the last member instead of the first.
ParamOrder_StatusLast ==
    <<"CURRENT_SERVER", "COUNTRY", "CITY",
      "IP", "PROTOCOL", "TRANSFER", "UPTIME", "STATUS">>

\* The members of NordVPNStatus.Param, in definition (= iteration) order.
ParamOrder ==
    <<"STATUS", "CURRENT_SERVER", "COUNTRY", "CITY",
      "IP", "PROTOCOL", "TRANSFER", "UPTIME">>

Param == {ParamOrder[i] : i \in 1..Len(ParamOrder)}

\* Param.<member>.value, as text.
ParamValue(p) ==
    CASE p = "STATUS"         -> <<"Status">>
      [] p = "CURRENT_SERVER" -> <<"Current", " ", "server">>
      [] p = "COUNTRY"        -> <<"Country">>
      [] p = "CITY"           -> <<"City">>
      [] p = "IP"             -> <<"Your", " ", "new", " ", "IP">>
      [] p = "PROTOCOL"       -> <<"Current", " ", "protocol">>
      [] p = "TRANSFER"       -> <<"Transfer">>
      [] p = "UPTIME"         -> <<"Uptime">>

Unknown == <<"Unknown">>

(***************************************************************************)
(* class NordVPNStatus                                                     *)
(***************************************************************************)
\* NordVPNStatus.__init__
NordVPNStatusInit ==
    [raw_status |-> Some(Unknown),
     data       |-> [p \in Param |-> IF p = "STATUS" THEN WAITING ELSE Unknown],
     warnings   |-> EmptyBag]

\* Mutant: the captured value is returned without strip().
ParseParam_NoStrip(param, source, throw) ==
    IF source.isNone THEN [raised |-> TRUE, value |-> Unknown]
    ELSE
    LET s     == source.str
        n     == Len(param)
        found == {i \in 1..Len(s) :
                     /\ OccursAt(param, s, i)
                     /\ i + n + 1 <= Len(s)
                     /\ s[i + n] = ":"
                     /\ s[i + n + 1] \in WS}
    IN  IF found = {}
        THEN [raised |-> throw, value |-> Unknown]
        ELSE LET i == CHOOSE k \in found : \A m \in found : k <= m
             IN  [raised |-> FALSE, value |-> RestOfLine(s, i + n + 2)]

\* _parse_param: re.search(r"{param}:\s(.*)", source), the leftmost match.
\* A source of None makes re.search raise TypeError.
ParseParam(param, source, throw) ==
    IF source.isNone THEN [raised |-> TRUE, value |-> Unknown]
    ELSE
    LET s     == source.str
        n     == Len(param)
        found == {i \in 1..Len(s) :
                     /\ OccursAt(param, s, i)
                     /\ i + n + 1 <= Len(s)
                     /\ s[i + n] = ":"
                     /\ s[i + n + 1] \in WS}
    IN  IF found = {}
        THEN [raised |-> throw, value |-> Unknown]
        ELSE LET i == CHOOSE k \in found : \A m \in found : k <= m
             IN  [raised |-> FALSE, value |-> Strip(RestOfLine(s, i + n + 2))]

\* The loop of update() over NordVPNStatus.Param from its i-th member on.  An
\* exception leaves the loop; the handler sets the status to WAITING.
RECURSIVE ParseLoop(_, _, _, _)
ParseLoop(order, data, raw, i) ==
    IF i > Len(order) THEN data
    ELSE
    LET p == order[i] IN
    IF p = "STATUS"
    THEN LET parsed == ParseParam(ParamValue(p), raw, TRUE)
             conv   == ConnectionStatus(parsed.value)
         IN  IF parsed.raised \/ conv.raised
             THEN [data EXCEPT !["STATUS"] = WAITING]
             ELSE ParseLoop(order, [data EXCEPT !["STATUS"] = conv.value], raw, i + 1)
    ELSE LET parsed == ParseParam(ParamValue(p), raw, FALSE)
         IN  IF parsed.raised
             THEN [data EXCEPT !["STATUS"] = WAITING]
             ELSE ParseLoop(order, [data EXCEPT ![p] = parsed.value], raw, i + 1)

\* The order in which sorted() puts the warning messages (code point order).
MessageOrder ==
    <<"Unknown error",
      "Warning: Please login to NordVPN",
      "Warning: new version of the nordvpn client available">>

\* sorted(self.warnings), from the i-th message of the order on.
RECURSIVE SortedFrom(_, _)
SortedFrom(w, i) ==
    IF i > Len(MessageOrder) THEN <<>>
    ELSE [k \in 1..CopiesIn(MessageOrder[i], w) |-> MessageOrder[i]]
         \o SortedFrom(w, i + 1)

Sorted(w) == SortedFrom(w, 1)

\* '\n\r'.join([raw] + msgs)
RECURSIVE Join(_, _)
Join(raw, msgs) ==
    IF msgs = <<>> THEN raw
    ELSE Join(raw \o <<"\n", "\r", Head(msgs)>>, Tail(msgs))

\* Mutant: with warnings the status field is left as it was.
Update_KeepsStatus(st, raw) ==
    LET saved == [st EXCEPT !.raw_status = raw] IN
    IF BagCardinality(st.warnings) > 0
    THEN IF raw.isNone
         THEN [st |-> saved, raised |-> TRUE]
         ELSE [st |-> [saved EXCEPT
                         !.raw_status = Some(Join(raw.str, Sorted(st.warnings)))],
               raised |-> FALSE]
    ELSE [st |-> [saved EXCEPT !.data = ParseLoop(ParamOrder, st.data, raw, 1)],
          raised |-> FALSE]

\* NordVPNStatus.update(raw_status): the object afterwards, and whether the
\* call raised.  With warnings, str.join raises TypeError on a None item.
Update(st, raw) ==
    LET saved == [st EXCEPT !.raw_status = raw] IN
    IF BagCardinality(st.warnings) > 0
    THEN IF raw.isNone
         THEN [st |-> saved, raised |-> TRUE]
         ELSE [st |-> [saved EXCEPT
                         !.raw_status = Some(Join(raw.str, Sorted(st.warnings))),
                         !.data = [st.data EXCEPT !["STATUS"] = WAITING]],
               raised |-> FALSE]
    ELSE [st |-> [saved EXCEPT !.data = ParseLoop(ParamOrder, st.data, raw, 1)],
          raised |-> FALSE]

\* Mutant: the warnings are kept in a list, add_warning appends.
AddWarning_Append(st, message) ==
    [st EXCEPT !.warnings = st.warnings (+) SetToBag({message})]

\* NordVPNStatus.add_warning: set.add
AddWarning(st, message) ==
    IF BagIn(message, st.warnings) THEN st
    ELSE [st EXCEPT !.warnings = st.warnings (+) SetToBag({message})]

\* NordVPNStatus.clear_warnings: set.clear
ClearWarnings(st) == [st EXCEPT !.warnings = EmptyBag]

(***************************************************************************)
(* Texts the external command prints.                                      *)
(***************************************************************************)
\* Lines of a status text.
StatusLine ==
    { <<"Status", ":", " ", "Connected">>,
      <<"Status", ":", " ", "Disconnected", "\r">>,
      <<"Status", ":", " ", "Connecting">>,
      <<"Status", ":", " ", "Reconnecting">>,
      <<"Country", ":", " ", "United", " ", "States">> }

\* Number of 'Status:' labels in a text.
StatusLabels(s) ==
    Cardinality({i \in 1..Len(s) : OccursAt(<<"Status", ":">>, s, i)})

\* The texts of at most n lines, at most one of them a 'Status:' line.
RECURSIVE TextsOf(_)
TextsOf(n) ==
    IF n = 0 THEN {<<>>}
    ELSE LET shorter == TextsOf(n - 1)
         IN  shorter \cup StatusLine \cup
             {t \in {a \o <<"\n">> \o l : a \in shorter \ {<<>>}, l \in StatusLine} :
                 StatusLabels(t) <= 1}

\* What NordVPNStatus.update can be handed: a text, the empty text, or None.
StatusInputs == {Some(t) : t \in TextsOf(MaxLines)} \cup {None}

(***************************************************************************)
(* NordVPNStatus driven directly through its public methods.               *)
(***************************************************************************)
\* The messages the program hands to add_warning.
Messages == {MessageOrder[2], MessageOrder[3]}

\* No status_check_loop is running on the timer thread.
NoPoll == [pc |-> "idle", raw |-> <<>>, tested |-> EmptyBag,
           appended |-> EmptyBag]

\* No get_settings call has returned.
NoSettings == [raised |-> FALSE, map |-> [k \in {} |-> "absent"]]

\* __init__ of NordVPN and of Indicator up to the first status check.
Init ==
    /\ status = NordVPNStatusInit
    /\ op = "init"
    /\ arg = None
    /\ raised = FALSE
    /\ hasWarnings = FALSE
    /\ warningsBefore = EmptyBag
    /\ settings = NoSettings
    /\ timer = "none"
    /\ mainloop = "init"
    /\ status_label = Some(<<>>)
    /\ icon = "nordvpn_waiting.png"
    /\ request = <<>>
    /\ commands = <<>>
    /\ words = <<>>
    /\ poll = NoPoll
    /\ menu = "idle"

\* History of an operation that returns nothing.
Ran(name, text, exc) ==
    /\ op' = name
    /\ arg' = text
    /\ raised' = exc
    /\ hasWarnings' = FALSE
    /\ warningsBefore' = status.warnings
    /\ settings' = NoSettings
    /\ UNCHANGED <<request, commands, words, poll, menu>>

CallUpdate ==
    \E raw \in StatusInputs :
        LET r == Update(status, raw)
        IN  /\ status' = r.st
            /\ Ran("update", raw, r.raised)
            /\ UNCHANGED <<timer, mainloop, status_label, icon>>

CallAddWarning ==
    \E m \in Messages :
        /\ status' = AddWarning(status, m)
        /\ Ran("add_warning", Some(<<m>>), FALSE)
        /\ UNCHANGED <<timer, mainloop, status_label, icon>>

CallClearWarnings ==
    /\ status' = ClearWarnings(status)
    /\ Ran("clear_warnings", None, FALSE)
    /\ UNCHANGED <<timer, mainloop, status_label, icon>>

StatusNext == CallUpdate \/ CallAddWarning \/ CallClearWarnings

StatusSpec == Init /\ [][StatusNext]_vars

(***************************************************************************)
(* class NordVPN                                                           *)
(***************************************************************************)
\* NordVPN.UPDATE_WARNING
UPDATE_WARNING ==
    <<"A", " ", "new", " ", "version", " ", "of", " ", "NordVPN", " ", "is",
      " ", "available!", " ", "Please", " ", "update", " ", "the", " ",
      "application.">>

\* NordVPN.LOGIN_WARNING
LOGIN_WARNING ==
    <<"Please", " ", "enter", " ", "your", " ", "login", " ", "details.">>

\* The messages _output_has_warnings registers.
UPDATE_MESSAGE == "Warning: new version of the nordvpn client available"
LOGIN_MESSAGE == "Warning: Please login to NordVPN"

\* Mutant: the login phrase is checked before the update phrase.
OutputHasWarnings_LoginFirst(st, output) ==
    IF IsSubstring(LOGIN_WARNING, output)
    THEN [st |-> AddWarning(st, LOGIN_MESSAGE), result |-> TRUE]
    ELSE IF IsSubstring(UPDATE_WARNING, output)
    THEN [st |-> AddWarning(st, UPDATE_MESSAGE), result |-> TRUE]
    ELSE [st |-> st, result |-> FALSE]

\* _output_has_warnings: the status object afterwards and the value returned.
OutputHasWarnings(st, output) ==
    IF IsSubstring(UPDATE_WARNING, output)
    THEN [st |-> AddWarning(st, UPDATE_MESSAGE), result |-> TRUE]
    ELSE IF IsSubstring(LOGIN_WARNING, output)
    THEN [st |-> AddWarning(st, LOGIN_MESSAGE), result |-> TRUE]
    ELSE [st |-> st, result |-> FALSE]

\* Mutant: the warnings are cleared before the output is checked.
WarningsAfter_ClearFirst(st, output) ==
    OutputHasWarnings(ClearWarnings(st), output).st

\* The body shared by connect, connect_to_country, connect_to_group,
\* connect_to_city and disconnect once the command has printed its output.
WarningsAfter(st, output) ==
    LET w == OutputHasWarnings(st, output)
    IN  IF ~w.result THEN ClearWarnings(w.st) ELSE w.st

\* Outputs of "nordvpn connect ..." and "nordvpn disconnect".
ConnectOutputs ==
    { <<>>,
      <<"You", " ", "are", " ", "connected", " ", "to", " ", "us123", "\n">>,
      UPDATE_WARNING \o <<"\n", "You", " ", "are", " ", "connected">>,
      LOGIN_WARNING \o <<"\n">>,
      LOGIN_WARNING \o <<"\n">> \o UPDATE_WARNING,
      <<"Please", " ", "update", " ", "the", " ", "application.">> }

\* Outputs of "nordvpn status".
StatusOutputs ==
    { <<>>,
      <<"Status", ":", " ", "Connected", "\n",
        "Current", " ", "server", ":", " ", "us123", "\n",
        "Country", ":", " ", "United", " ", "States", "\n">>,
      <<"Status", ":", " ", "Disconnected", "\r", "\n">>,
      <<"Status", ":", " ", "Connecting">>,
      UPDATE_WARNING \o <<"\n", "Status", ":", " ", "Connected">>,
      LOGIN_WARNING }

\* _run_command: subprocess.Popen raises OSError when the executable cannot
\* be started; otherwise the decoded standard output is returned.
RunCommand(outputs) ==
    {[raised |-> FALSE, output |-> o] : o \in outputs}
        \cup {[raised |-> TRUE, output |-> <<>>]}

\* History of one of the connection interfaces.
RanConnect(name, run, w) ==
    /\ op' = name
    /\ arg' = Some(run.output)
    /\ raised' = run.raised
    /\ hasWarnings' = w
    /\ warningsBefore' = status.warnings
    /\ settings' = NoSettings
    /\ UNCHANGED <<request, commands, words, poll, menu>>

\* A connection interface: the command, then the warning check.
ConnectBody(name, run) ==
    IF run.raised
    THEN /\ status' = status
         /\ RanConnect(name, run, FALSE)
    ELSE /\ status' = WarningsAfter(status, run.output)
         /\ RanConnect(name, run, OutputHasWarnings(status, run.output).result)

\* NordVPN.connect
Connect ==
    \E run \in RunCommand(ConnectOutputs) :
        /\ ConnectBody("connect", run)
        /\ UNCHANGED <<timer, mainloop, status_label, icon>>

\* NordVPN.connect_to_country
ConnectToCountry ==
    \E run \in RunCommand(ConnectOutputs) :
        /\ ConnectBody("connect_to_country", run)
        /\ UNCHANGED <<timer, mainloop, status_label, icon>>

\* NordVPN.connect_to_group
ConnectToGroup ==
    \E run \in RunCommand(ConnectOutputs) :
        /\ ConnectBody("connect_to_group", run)
        /\ UNCHANGED <<timer, mainloop, status_label, icon>>

\* NordVPN.connect_to_city
ConnectToCity ==
    \E run \in RunCommand(ConnectOutputs) :
        /\ ConnectBody("connect_to_city", run)
        /\ UNCHANGED <<timer, mainloop, status_label, icon>>

\* NordVPN.disconnect
Disconnect ==
    \E run \in RunCommand(ConnectOutputs) :
        /\ ConnectBody("disconnect", run)
        /\ UNCHANGED <<timer, mainloop, status_label, icon>>

\* _status_check: the status object afterwards, and whether the call raised.
StatusCheck(st, run) ==
    IF run.raised THEN [st |-> st, raised |-> TRUE]
    ELSE Update(st, Some(Strip(run.output)))

\* NordVPN.get_status
GetStatus ==
    \E run \in RunCommand(StatusOutputs) :
        LET r == StatusCheck(status, run)
        IN  /\ status' = r.st
            /\ Ran("get_status", Some(run.output), r.raised)
            /\ UNCHANGED <<timer, mainloop, status_label, icon>>

(***************************************************************************)
(* class Settings and the settings parser                                  *)
(***************************************************************************)
\* The members of Settings.
SettingsKeys ==
    {"PROTOCOL", "KILL_SWITCH", "CYBER_SEC", "OBFUSCATE",
     "AUTO_CONNECT", "DNS", "NOTIFY", "TECHNOLOGY"}

\* Settings.<member>.value, as text.
SettingsValue(k) ==
    CASE k = "PROTOCOL"     -> <<"Protocol">>
      [] k = "KILL_SWITCH"  -> <<"Kill", " ", "Switch">>
      [] k = "CYBER_SEC"    -> <<"CyberSec">>
      [] k = "OBFUSCATE"    -> <<"Obfuscate">>
      [] k = "AUTO_CONNECT" -> <<"Auto-connect">>
      [] k = "DNS"          -> <<"DNS">>
      [] k = "NOTIFY"       -> <<"Notify">>
      [] k = "TECHNOLOGY"   -> <<"Technology">>

\* A dict {Settings: bool}: each member is "absent", "true" or "false".
EmptySettings == [k \in SettingsKeys |-> "absent"]

\* Tokens of a single character; every other token has two or more.
ShortTokens == {":", "-"} \cup WS

\* Last position of the run of non-white-space tokens (\S) starting at i;
\* i - 1 when there is none.
NonWsRunEnd(s, i) ==
    LET stops == {k \in i..Len(s) : s[k] \in WS}
    IN  IF stops = {} THEN Len(s)
        ELSE (CHOOSE k \in stops : \A m \in stops : k <= m) - 1

\* Last position of the run of white-space tokens (\s) starting at i;
\* i - 1 when there is none.
WsRunEnd(s, i) ==
    LET stops == {k \in i..Len(s) : s[k] \notin WS}
    IN  IF stops = {} THEN Len(s)
        ELSE (CHOOSE k \in stops : \A m \in stops : k <= m) - 1

\* s[i..j] holds two characters or more.
TwoOrMore(s, i, j) == j > i \/ (j = i /\ s[i] \notin ShortTokens)

\* First position of the value when the key ends at c: ':' at c + 1, then
\* \s* and a non-empty \S+.  0 when the rest of the expression fails there.
ValueStart(s, c) ==
    IF c + 1 <= Len(s) /\ s[c + 1] = ":"
    THEN LET v == WsRunEnd(s, c + 2) + 1
         IN  IF v <= Len(s) THEN v ELSE 0
    ELSE 0

\* (\S{2,}\s*\S*):\s*(\S+) matched at position i, the quantifiers greedy: the
\* position the key ends at, 0 when there is no match at i.
KeyEnd(s, i) ==
    LET r1 == NonWsRunEnd(s, i)
        w1 == WsRunEnd(s, r1 + 1)
        r2 == NonWsRunEnd(s, w1 + 1)
        \* \S{2,} takes the whole run, \s* the white space, \S* ends at c
        across == {c \in w1..r2 :
                      r1 >= i /\ w1 > r1 /\ TwoOrMore(s, i, r1)
                      /\ ValueStart(s, c) > 0}
        \* the key ends inside the first run
        inside == {c \in i..(r1 - 1) : TwoOrMore(s, i, c) /\ ValueStart(s, c) > 0}
    IN  IF across # {} THEN CHOOSE c \in across : \A m \in across : m <= c
        ELSE IF inside # {} THEN CHOOSE c \in inside : \A m \in inside : m <= c
        ELSE 0

\* re.findall from position i on: the (key, value) pairs, left to right.
RECURSIVE FindAll(_, _)
FindAll(s, i) ==
    IF i > Len(s) THEN <<>>
    ELSE LET c == KeyEnd(s, i)
         IN  IF c = 0 THEN FindAll(s, i + 1)
             ELSE LET v == ValueStart(s, c)
                      e == NonWsRunEnd(s, v)
                  IN  <<[key |-> SubSeq(s, i, c), value |-> SubSeq(s, v, e)]>>
                      \o FindAll(s, e + 1)

\* Settings(key): the member with that value; raises ValueError when there
\* is none.
SettingsOf(key) ==
    IF \E k \in SettingsKeys : SettingsValue(k) = key
    THEN [raised |-> FALSE, value |-> CHOOSE k \in SettingsKeys : SettingsValue(k) = key]
    ELSE [raised |-> TRUE, value |-> "PROTOCOL"]

\* The loop of _parse_settings over the matches from the i-th on.
RECURSIVE SettingsLoop(_, _, _)
SettingsLoop(match, map, i) ==
    IF i > Len(match) THEN [raised |-> FALSE, map |-> map]
    ELSE
    LET key    == match[i].key
        v0     == match[i].value
        v1     == IF key = SettingsValue("PROTOCOL")
                  THEN (IF v0 = <<"TCP">> THEN <<"enabled">> ELSE <<"disabled">>)
                  ELSE v0
        v2     == IF key = SettingsValue("TECHNOLOGY")
                  THEN (IF v1 = <<"NordLynx">> THEN <<"enabled">> ELSE <<"disabled">>)
                  ELSE v1
        member == SettingsOf(key)
    IN  IF member.raised THEN [raised |-> TRUE, map |-> map]
        ELSE SettingsLoop(match,
                 [map EXCEPT ![member.value] =
                     IF v2 = <<"enabled">> THEN "true" ELSE "false"],
                 i + 1)

\* _parse_settings
ParseSettings(raw) ==
    IF raw.isNone THEN [raised |-> FALSE, map |-> EmptySettings]
    ELSE SettingsLoop(FindAll(raw.str, 1), EmptySettings, 1)

\* Outputs of "nordvpn settings".
SettingsOutputs ==
    { <<>>,
      <<"Protocol", ":", " ", "TCP", "\n",
        "Technology", ":", " ", "NordLynx", "\n",
        "Kill", " ", "Switch", ":", " ", "enabled">>,
      <<"-", "\r", " ", "\r", "Technology", ":", " ", "OpenVPN", "\n",
        "Protocol", ":", " ", "UDP", "\n",
        "Kill", " ", "Switch", ":", " ", "disabled", "\n",
        "CyberSec", ":", " ", "enabled", "\n",
        "Obfuscate", ":", " ", "disabled", "\n",
        "Notify", ":", " ", "enabled", "\n",
        "Auto-connect", ":", " ", "disabled", "\n",
        "DNS", ":", " ", "disabled", "\n">>,
      <<"Protocol", ":", " ", "TCP", "\n",
        "Firewall", ":", " ", "enabled", "\n",
        "Kill", " ", "Switch", ":", " ", "enabled">>,
      <<"Notify", ":", " ", "enabled", "\n",
        "Notify", ":", " ", "disabled">> }

\* NordVPN.get_settings
GetSettings ==
    \E run \in RunCommand(SettingsOutputs) :
        LET r == IF run.raised THEN [raised |-> TRUE, map |-> EmptySettings]
                 ELSE ParseSettings(Some(run.output))
        IN  /\ settings' = r
            /\ op' = "get_settings"
            /\ arg' = Some(run.output)
            /\ raised' = r.raised
            /\ hasWarnings' = FALSE
            /\ warningsBefore' = status.warnings
            /\ UNCHANGED <<status, timer, mainloop, status_label, icon>>
            /\ UNCHANGED <<request, commands, words, poll, menu>>

(***************************************************************************)
(* The facade called in any order.                                         *)
(***************************************************************************)
Next ==
    \/ Connect
    \/ ConnectToCountry
    \/ ConnectToGroup
    \/ ConnectToCity
    \/ Disconnect
    \/ GetStatus
    \/ GetSettings

Spec == Init /\ [][Next]_vars

(***************************************************************************)
(* class Indicator                                                         *)
(***************************************************************************)
\* Indicator.get_icon_path: the file name of the icon.
GetIconPath(connected) ==
    IF connected = CONNECTED THEN "nordvpn_connected.png"
    ELSE IF connected = DISCONNECTED THEN "nordvpn_disconnected.png"
    ELSE "nordvpn_waiting.png"

\* Indicator.update followed by the rest of status_check_loop.  An exception
\* of get_status leaves status_check_loop before the new Timer is made.
StatusCheckLoop(run, onError) ==
    LET r == StatusCheck(status, run)
    IN  /\ status' = r.st
        /\ Ran("status_check_loop", Some(run.output), r.raised)
        /\ IF r.raised
           THEN /\ onError
                /\ UNCHANGED <<status_label, icon>>
           ELSE /\ status_label' = r.st.raw_status
                /\ icon' = GetIconPath(r.st.data["STATUS"])
                /\ timer' = "armed"
                /\ mainloop' = "running"

\* Indicator.__init__: the first status_check_loop, then gtk.main().  An
\* exception leaves __init__ and main(): the program ends.
Start ==
    /\ mainloop = "init"
    /\ \E run \in RunCommand(StatusOutputs) :
           StatusCheckLoop(run, timer' = timer /\ mainloop' = "crashed")

\* The armed threading.Timer expires and runs status_check_loop on its own
\* thread.  An exception ends that thread; self.timer is then a timer that
\* has fired.
TimerExpires ==
    /\ mainloop = "running"
    /\ timer = "armed"
    /\ \E run \in RunCommand(StatusOutputs) :
           StatusCheckLoop(run, timer' = "fired" /\ mainloop' = mainloop)

\* Indicator.quit: Timer.cancel() stops a timer that is still waiting.
Quit ==
    /\ mainloop = "running"
    /\ timer' = IF timer = "armed" THEN "cancelled" ELSE timer
    /\ mainloop' = "quit"
    /\ Ran("quit", None, FALSE)
    /\ UNCHANGED <<status, status_label, icon>>

\* A menu callback: disconnect(None), then one of the connect interfaces.  An
\* exception of disconnect ends the callback.
ConnectCallback(name) ==
    /\ mainloop = "running"
    /\ \E first \in RunCommand(ConnectOutputs), second \in RunCommand(ConnectOutputs) :
           LET st1 == IF first.raised THEN status
                      ELSE WarningsAfter(status, first.output)
               st2 == IF first.raised \/ second.raised THEN st1
                      ELSE WarningsAfter(st1, second.output)
           IN  /\ status' = st2
               /\ Ran(name, None, first.raised \/ second.raised)
    /\ UNCHANGED <<timer, mainloop, status_label, icon>>

\* Indicator.auto_connect_cb
AutoConnectCb == ConnectCallback("auto_connect_cb")

\* Indicator.country_connect_cb
CountryConnectCb == ConnectCallback("country_connect_cb")

\* Indicator.group_connect_cb
GroupConnectCb == ConnectCallback("group_connect_cb")

\* Indicator.city_connect_cb
CityConnectCb == ConnectCallback("city_connect_cb")

\* The menu item 'Disconnect', connected to NordVPN.disconnect.
DisconnectItem ==
    /\ mainloop = "running"
    /\ Disconnect

IndicatorNext ==
    \/ Start
    \/ TimerExpires
    \/ Quit
    \/ AutoConnectCb
    \/ CountryConnectCb
    \/ GroupConnectCb
    \/ CityConnectCb
    \/ DisconnectItem

IndicatorSpec == Init /\ [][IndicatorNext]_vars

(***************************************************************************)
(* Vocabulary of the properties.                                           *)
(***************************************************************************)
ConnectOps ==
    {"connect", "connect_to_country", "connect_to_group", "connect_to_city",
     "disconnect"}

\* The lines of a text.
LinesOf(t) ==
    {RestOfLine(t, a) : a \in {x \in 1..(Len(t) + 1) : x = 1 \/ t[x - 1] = "\n"}}

\* The text has the line 'Status: <v>'.
HasStatusLine(t, v) ==
    \E l \in LinesOf(t) : Strip(l) = <<"Status", ":", " ", v>>

\* The text has a 'Status:' label.
HasStatusLabel(t) == IsSubstring(<<"Status", ":">>, t)

\* No line of the text gives one of the three status values.
NoValidStatus(t) ==
    \A v \in {"Connected", "Disconnected", "Connecting"} : ~HasStatusLine(t, v)

\* The output holds a trigger phrase.
HasTrigger(output) ==
    IsSubstring(UPDATE_WARNING, output) \/ IsSubstring(LOGIN_WARNING, output)

\* The warning lines as update() appends them to a text.
WarningLines(w) == Join(<<>>, Sorted(w))

\* The text ends with the given tokens.
EndsWith(t, tail) ==
    /\ Len(t) >= Len(tail)
    /\ SubSeq(t, Len(t) - Len(tail) + 1, Len(t)) = tail

\* The listing has a '<label>: <value>' pair whose label is no setting name.
HasUnrecognizedLabel(t) ==
    \E i \in 2..Len(t) :
        /\ t[i] = ":"
        /\ t[i - 1] \notin WS \cup {":"}
        /\ i + 2 <= Len(t)
        /\ t[i + 1] = " "
        /\ t[i + 2] \notin WS
        /\ \A k \in SettingsKeys :
               ~OccursAt(SettingsValue(k) \o <<":">>, t, i - Len(SettingsValue(k)))

\* The listing has a '<label>: <value>' pair for the setting k.
HasSettingLine(t, k) ==
    \E i \in 1..Len(t) :
        /\ OccursAt(SettingsValue(k) \o <<":", " ">>, t, i)
        /\ i + Len(SettingsValue(k)) + 2 <= Len(t)

(***************************************************************************)
(* C1.  In every reachable state of the facade, a non-empty warning set    *)
(* means that the status field is WAITING and that raw_status ends with    *)
(* the active warnings, one line each, sorted.  The code restores this     *)
(* only at the next update(): stated as claimed, it is violated.           *)
(***************************************************************************)
C1_WarningsAlwaysShown ==
    BagCardinality(status.warnings) > 0 =>
        /\ status.data["STATUS"] = WAITING
        /\ ~status.raw_status.isNone
        /\ EndsWith(status.raw_status.str, WarningLines(status.warnings))

(***************************************************************************)
(* C2.  get_status leaves the warning set as it was; a connect/disconnect  *)
(* whose output holds a trigger phrase removes no warning; one whose       *)
(* output holds none leaves the warning set empty.                         *)
(***************************************************************************)
C2_WarningsPersist ==
    /\ op = "get_status" => status.warnings = warningsBefore
    /\ (op \in ConnectOps /\ ~raised /\ HasTrigger(arg.str)) =>
           warningsBefore \sqsubseteq status.warnings
    /\ (op \in ConnectOps /\ ~raised /\ ~HasTrigger(arg.str)) =>
           BagToSet(status.warnings) = {}

\* Both warnings, registered by two commands, are still there after a poll.
C2_Witness ==
    /\ op = "get_status"
    /\ ~raised
    /\ BagToSet(warningsBefore) = Messages
    /\ BagToSet(status.warnings) = Messages

C4_NoPartialUpdate ==
    [][(/\ op' = "update"
        /\ ~arg'.isNone
        /\ BagCardinality(status.warnings) = 0
        /\ NoValidStatus(arg'.str))
       => /\ status'.data["STATUS"] = WAITING
          /\ \A p \in Param \ {"STATUS"} : status'.data[p] = status.data[p]]_vars

\* A failed parse of a text with an invalid status value and no country
\* keeps the country of an earlier poll instead of taking 'Unknown'.
C4_Witness ==
    /\ op = "update"
    /\ ~arg.isNone
    /\ BagCardinality(status.warnings) = 0
    /\ NoValidStatus(arg.str)
    /\ HasStatusLabel(arg.str)
    /\ ~IsSubstring(<<"Country", ":">>, arg.str)
    /\ status.data["STATUS"] = WAITING
    /\ status.data["COUNTRY"] = <<"United", " ", "States">>

(***************************************************************************)
(* C5.  update() never raises to its caller, whatever the input (a text,   *)
(* the empty text, None) and the warning set.  With a warning active and   *)
(* None as input the join raises: stated as claimed, it is violated.       *)
(***************************************************************************)
C5_UpdateNeverRaises == op = "update" => ~raised

(***************************************************************************)
(* C6.  As claimed: a status text holding the update-available phrase      *)
(* makes update() yield WAITING and a raw_status of the text plus exactly  *)
(* one warning line.  update() does not look for the phrase: violated.     *)
(***************************************************************************)
C6_PhraseForcesWaiting ==
    (op = "get_status" /\ ~raised /\ IsSubstring(UPDATE_WARNING, arg.str)) =>
        /\ status.data["STATUS"] = WAITING
        /\ \E m \in Messages :
               status.raw_status = Some(Strip(arg.str) \o <<"\n", "\r", m>>)

(***************************************************************************)
(* C6, amended.  For a status text holding the update-available phrase,    *)
(* update() yields WAITING and the text plus exactly one warning line when *)
(* the update-available warning is the one warning registered (by an       *)
(* earlier connect/disconnect); with no warning registered raw_status is   *)
(* the text alone and the status is the parsed one.                        *)
(***************************************************************************)
C6_RegisteredWarningForcesWaiting ==
    (op = "get_status" /\ ~raised /\ IsSubstring(UPDATE_WARNING, arg.str)) =>
        /\ BagToSet(status.warnings) = {UPDATE_MESSAGE} =>
               /\ status.data["STATUS"] = WAITING
               /\ status.raw_status =
                      Some(Strip(arg.str) \o <<"\n", "\r", UPDATE_MESSAGE>>)
        /\ BagToSet(status.warnings) = {} =>
               /\ status.raw_status = Some(Strip(arg.str))
               /\ HasStatusLine(Strip(arg.str), "Connected") =>
                      status.data["STATUS"] = CONNECTED

\* The warning registered, a status text with the phrase has been polled.
C6_Witness ==
    /\ op = "get_status"
    /\ ~raised
    /\ IsSubstring(UPDATE_WARNING, arg.str)
    /\ BagToSet(status.warnings) = {UPDATE_MESSAGE}
    /\ status.data["STATUS"] = WAITING
    /\ status.raw_status = Some(Strip(arg.str) \o <<"\n", "\r", UPDATE_MESSAGE>>)

(***************************************************************************)
(* C7.  While the application runs, a poll is always pending: after every  *)
(* poll, a failed one included, the timer is armed again.  A command that  *)
(* cannot be started ends status_check_loop before the timer is made:      *)
(* stated as claimed, it is violated.                                      *)
(***************************************************************************)
C7_PollingKeepsRunning == mainloop = "running" => timer = "armed"

(***************************************************************************)
(* C8.  Parsing a settings listing with an unrecognized label completes    *)
(* without error and returns the recognized keys.  Settings(key) raises    *)
(* ValueError on such a label: stated as claimed, it is violated.          *)
(***************************************************************************)
C8_UnrecognizedDropped ==
    (op = "get_settings" /\ HasUnrecognizedLabel(arg.str)) =>
        /\ ~raised
        /\ \A k \in SettingsKeys :
               HasSettingLine(arg.str, k) => settings.map[k] # "absent"

(***************************************************************************)
(* C9.  One call of the warning detector returns true exactly when the     *)
(* output holds a trigger phrase and then registers exactly one message:   *)
(* the update-available one when its phrase is there, also next to the     *)
(* login phrase, otherwise the login one.  With no phrase none is          *)
(* registered.                                                             *)
(***************************************************************************)
C9_DetectorRegistersOne ==
    (op \in ConnectOps /\ ~raised) =>
        LET upd   == IsSubstring(UPDATE_WARNING, arg.str)
            login == IsSubstring(LOGIN_WARNING, arg.str)
        IN  /\ hasWarnings = (upd \/ login)
            /\ upd => BagToSet(status.warnings) =
                          BagToSet(warningsBefore) \cup {UPDATE_MESSAGE}
            /\ (~upd /\ login) => BagToSet(status.warnings) =
                          BagToSet(warningsBefore) \cup {LOGIN_MESSAGE}
            /\ (~upd /\ ~login) => BagToSet(status.warnings) = {}

\* An output with both phrases registered the update-available message only.
C9_Witness ==
    /\ op \in ConnectOps
    /\ ~raised
    /\ IsSubstring(UPDATE_WARNING, arg.str)
    /\ IsSubstring(LOGIN_WARNING, arg.str)
    /\ hasWarnings
    /\ BagToSet(warningsBefore) = {}
    /\ BagToSet(status.warnings) = {UPDATE_MESSAGE}

(***************************************************************************)
(* C10.  The warning set holds at most one entry per warning message, and  *)
(* sorted() lists each message once.                                       *)
(***************************************************************************)
C10_SingleEntry ==
    /\ \A m \in BagToSet(status.warnings) : CopiesIn(m, status.warnings) = 1
    /\ Len(Sorted(status.warnings)) = Cardinality(BagToSet(status.warnings))

\* The detector ran on the update phrase with its message already registered.
C10_Witness ==
    /\ op \in ConnectOps
    /\ ~raised
    /\ IsSubstring(UPDATE_WARNING, arg.str)
    /\ BagIn(UPDATE_MESSAGE, warningsBefore)
    /\ CopiesIn(UPDATE_MESSAGE, status.warnings) = 1

(***************************************************************************)
(* NordVPN.set_settings                                                    *)
(*                                                                         *)
(* The commands are built with str.replace, str.lower and str.format,      *)
(* which work on single characters: here a text is the sequence of its     *)
(* characters.                                                             *)
(***************************************************************************)
\* Largest number of entries of a mapping handed to set_settings.
MaxEntries == 2

UpperCase ==
    <<"A", "B", "C", "D", "E", "F", "G", "H", "I", "J", "K", "L", "M", "N",
      "O", "P", "Q", "R", "S", "T", "U", "V", "W", "X", "Y", "Z">>

LowerCase ==
    <<"a", "b", "c", "d", "e", "f", "g", "h", "i", "j", "k", "l", "m", "n",
      "o", "p", "q", "r", "s", "t", "u", "v", "w", "x", "y", "z">>

\* str.lower() of one character.
LowerChar(c) ==
    IF \E i \in 1..Len(UpperCase) : UpperCase[i] = c
    THEN LowerCase[CHOOSE i \in 1..Len(UpperCase) : UpperCase[i] = c]
    ELSE c

\* str.lower()
Lower(s) == [i \in 1..Len(s) |-> LowerChar(s[i])]

\* str.replace(c, ''): every occurrence of the character c is removed.
Remove(s, c) == SelectSeq(s, LAMBDA x : x # c)

\* Settings.<member>.value, character by character.
SettingsLabel(k) ==
    CASE k = "PROTOCOL"     -> <<"P", "r", "o", "t", "o", "c", "o", "l">>
      [] k = "KILL_SWITCH"  -> <<"K", "i", "l", "l", " ", "S", "w", "i", "t", "c", "h">>
      [] k = "CYBER_SEC"    -> <<"C", "y", "b", "e", "r", "S", "e", "c">>
      [] k = "OBFUSCATE"    -> <<"O", "b", "f", "u", "s", "c", "a", "t", "e">>
      [] k = "AUTO_CONNECT" -> <<"A", "u", "t", "o", "-", "c", "o", "n", "n", "e", "c", "t">>
      [] k = "DNS"          -> <<"D", "N", "S">>
      [] k = "NOTIFY"       -> <<"N", "o", "t", "i", "f", "y">>
      [] k = "TECHNOLOGY"   -> <<"T", "e", "c", "h", "n", "o", "l", "o", "g", "y">>

\* A value of the mapping: a bool or a str.
Bool(b) == [isBool |-> TRUE, b |-> b, s |-> <<>>]
Text(s) == [isBool |-> FALSE, b |-> FALSE, s |-> s]

\* str(value)
Str(value) ==
    IF value.isBool
    THEN (IF value.b THEN <<"T", "r", "u", "e">> ELSE <<"F", "a", "l", "s", "e">>)
    ELSE value.s

\* The key of the command: the label without spaces and hyphens, lower-cased.
EncodeKey_KeepsHyphen(key) == Lower(Remove(SettingsLabel(key), " "))

EncodeKey(key) == Lower(Remove(Remove(SettingsLabel(key), " "), "-"))

\* The setting of the command, before str(setting).lower().
Setting(key, value) ==
    IF key = "AUTO_CONNECT"
    THEN IF value = Text(<<"O", "f", "f">>) THEN Bool(FALSE)
         ELSE IF value = Text(<<"A", "u", "t", "o", "m", "a", "t", "i", "c">>) THEN Bool(TRUE)
         ELSE Text(<<"o", "n", " ">> \o Lower(value.s))
    ELSE value

\* 'nordvpn set {} {}'.format(key, setting)
Command(key, value) ==
    <<"n", "o", "r", "d", "v", "p", "n", " ", "s", "e", "t", " ">>
        \o EncodeKey(key) \o <<" ">> \o Lower(Str(Setting(key, value)))

\* The values the settings window stores for a key (on_setting_update).
SettingsChoices(key) ==
    CASE key = "PROTOCOL"     -> {Text(<<"U", "D", "P">>), Text(<<"T", "C", "P">>)}
      [] key = "KILL_SWITCH"  -> {Bool(TRUE), Bool(FALSE)}
      [] key = "AUTO_CONNECT" -> {Text(<<"O", "f", "f">>),
                                  Text(<<"A", "u", "t", "o", "m", "a", "t", "i", "c">>),
                                  Text(<<"N", "e", "w", "_", "Z", "e", "a", "l", "a", "n", "d">>)}
      [] key = "TECHNOLOGY"   -> {Text(<<"N", "o", "r", "d", "L", "y", "n", "x">>)}
      [] OTHER                -> {}

\* The mappings handed to set_settings: a dict, kept in insertion order, of
\* at most MaxEntries entries.
SettingsEntries ==
    UNION {{[key |-> k, value |-> v] : v \in SettingsChoices(k)} : k \in SettingsKeys}

SettingsMappings ==
    {m \in UNION {[1..n -> SettingsEntries] : n \in 0..MaxEntries} :
        \A i, j \in 1..Len(m) : m[i].key = m[j].key => i = j}

\* NordVPN.set_settings: one _run_command per entry.  _run_command raises
\* when the command cannot be started; that ends the loop at the entry
\* failAt (0: no command fails).
SetSettings ==
    \E m \in SettingsMappings, failAt \in 0..MaxEntries :
        /\ failAt <= Len(m)
        /\ request' = m
        /\ commands' = [i \in 1..(IF failAt = 0 THEN Len(m) ELSE failAt) |->
                            Command(m[i].key, m[i].value)]
        /\ op' = "set_settings"
        /\ arg' = None
        /\ raised' = (failAt # 0)
        /\ hasWarnings' = FALSE
        /\ warningsBefore' = status.warnings
        /\ settings' = NoSettings
        /\ UNCHANGED <<status, timer, mainloop, status_label, icon, words, poll,
                     menu>>

\* The settings window applies mappings one after the other.
SettingsNext == SetSettings

SettingsSpec == Init /\ [][SettingsNext]_vars

\* The key of the command each label has to give.
CommandKey(k) ==
    CASE k = "PROTOCOL"     -> <<"p", "r", "o", "t", "o", "c", "o", "l">>
      [] k = "KILL_SWITCH"  -> <<"k", "i", "l", "l", "s", "w", "i", "t", "c", "h">>
      [] k = "CYBER_SEC"    -> <<"c", "y", "b", "e", "r", "s", "e", "c">>
      [] k = "OBFUSCATE"    -> <<"o", "b", "f", "u", "s", "c", "a", "t", "e">>
      [] k = "AUTO_CONNECT" -> <<"a", "u", "t", "o", "c", "o", "n", "n", "e", "c", "t">>
      [] k = "DNS"          -> <<"d", "n", "s">>
      [] k = "NOTIFY"       -> <<"n", "o", "t", "i", "f", "y">>
      [] k = "TECHNOLOGY"   -> <<"t", "e", "c", "h", "n", "o", "l", "o", "g", "y">>

\* The value of the command a key and a value have to give.
CommandValue(k, v) ==
    IF k = "AUTO_CONNECT" /\ ~v.isBool
    THEN IF v.s = <<"O", "f", "f">> THEN <<"f", "a", "l", "s", "e">>
         ELSE IF v.s = <<"A", "u", "t", "o", "m", "a", "t", "i", "c">> THEN <<"t", "r", "u", "e">>
         ELSE <<"o", "n", " ">> \o Lower(v.s)
    ELSE IF v.isBool THEN (IF v.b THEN <<"t", "r", "u", "e">> ELSE <<"f", "a", "l", "s", "e">>)
    ELSE Lower(v.s)

\* C11: set_settings hands _run_command one command per entry of the mapping,
\* in the mapping's order and none for a key that is not in it, and each
\* command is 'nordvpn set <key> <value>' with the key and the value encoded
\* as the settings encoder says; when a command cannot be started the call
\* raises and the commands issued are those of the entries up to that one.
C11_OneCommandPerEntry ==
    op = "set_settings" =>
        /\ Len(commands) <= Len(request)
        /\ ~raised => Len(commands) = Len(request)
        /\ \A i \in 1..Len(commands) :
               commands[i] = <<"n", "o", "r", "d", "v", "p", "n", " ", "s", "e", "t", " ">>
                   \o CommandKey(request[i].key) \o <<" ">>
                   \o CommandValue(request[i].key, request[i].value)

\* A mapping of two entries, one of them auto-connect to a country, has been
\* applied.
C11_Witness ==
    /\ op = "set_settings"
    /\ ~raised
    /\ Len(commands) = 2
    /\ \E i \in 1..2 :
           /\ request[i].key = "AUTO_CONNECT"
           /\ commands[i] = <<"n", "o", "r", "d", "v", "p", "n", " ", "s", "e", "t", " ", "a", "u", "t", "o", "c", "o", "n", "n", "e", "c", "t", " ", "o", "n", " ", "n", "e", "w", "_", "z", "e", "a", "l", "a", "n", "d">>
    /\ \E i \in 1..2 : request[i].key = "KILL_SWITCH"

(***************************************************************************)
(* NordVPN.get_countries, get_cities, get_groups and _parse_words          *)
(*                                                                         *)
(* The words are found, compared and rewritten character by character.     *)
(***************************************************************************)
\* Largest number of characters of the output of a list command.
MaxChars == 5

\* The characters of the outputs, in the order of their code points:
\* ' ' (32), '-' (45), '1' (49), '_' (95), 'a' (97).
CodePoints == <<" ", "-", "1", "_", "a">>

\* ord(c)
Ord(c) == CHOOSE i \in 1..Len(CodePoints) : CodePoints[i] = c

\* \w: letters, digits and the underscore.
IsWordChar(c) == c \in {"1", "_", "a"}

\* a < b on str: the first differing character decides, a proper prefix is
\* smaller.
StrLess(a, b) ==
    \E i \in 1..Len(b) :
        /\ i <= Len(a) + 1
        /\ \A j \in 1..(i - 1) : a[j] = b[j]
        /\ \/ i = Len(a) + 1
           \/ i <= Len(a) /\ Ord(a[i]) < Ord(b[i])

\* Last position of the run of \w characters starting at i; i - 1 when
\* there is none.
RECURSIVE WordRunEnd(_, _)
WordRunEnd(s, i) ==
    IF i <= Len(s) /\ IsWordChar(s[i]) THEN WordRunEnd(s, i + 1) ELSE i - 1

\* re.findall(r'(\w{2,})+', raw) from position i: the greedy \w{2,} takes a
\* whole run of word characters in one repetition, so the group is the run.
RECURSIVE FindWords(_, _)
FindWords(s, i) ==
    IF i > Len(s) THEN <<>>
    ELSE LET e == WordRunEnd(s, i)
         IN  IF e >= i + 1 THEN <<SubSeq(s, i, e)>> \o FindWords(s, e + 1)
             ELSE FindWords(s, i + 1)

\* list.sort(): the entries in ascending order, equal entries kept.
RECURSIVE Insert(_, _)
Insert(sorted, w) ==
    IF sorted = <<>> THEN <<w>>
    ELSE IF StrLess(w, Head(sorted)) THEN <<w>> \o sorted
    ELSE <<Head(sorted)>> \o Insert(Tail(sorted), w)

RECURSIVE SortList(_)
SortList(list) ==
    IF list = <<>> THEN <<>>
    ELSE Insert(SortList(SubSeq(list, 1, Len(list) - 1)), list[Len(list)])

\* str.replace(a, b) for single characters a and b.
Replace(s, a, b) == [i \in 1..Len(s) |-> IF s[i] = a THEN b ELSE s[i]]

\* NordVPN._parse_words: find the words, sort them, then replace the
\* underscores.
ParseWords(raw) ==
    IF raw.isNone THEN <<>>
    ELSE LET parsed_list == SortList(FindWords(raw.str, 1))
         IN  [i \in 1..Len(parsed_list) |-> Replace(parsed_list[i], "_", " ")]

\* The outputs of 'nordvpn countries', 'nordvpn cities' and 'nordvpn groups'.
RECURSIVE CharTexts(_)
CharTexts(n) ==
    IF n = 0 THEN {<<>>}
    ELSE LET shorter == CharTexts(n - 1)
         IN  shorter \cup {Append(t, CodePoints[c]) :
                              t \in {x \in shorter : Len(x) = n - 1},
                              c \in 1..Len(CodePoints)}

WordsOutputs == CharTexts(MaxChars)

\* The program before a list is asked for; arg is the text the list command
\* is going to print.
WordsInit ==
    /\ status = NordVPNStatusInit
    /\ op = "init"
    /\ arg \in {Some(t) : t \in WordsOutputs}
    /\ raised = FALSE
    /\ hasWarnings = FALSE
    /\ warningsBefore = EmptyBag
    /\ settings = NoSettings
    /\ timer = "none"
    /\ mainloop = "init"
    /\ status_label = Some(<<>>)
    /\ icon = "nordvpn_waiting.png"
    /\ request = <<>>
    /\ commands = <<>>
    /\ words = <<>>
    /\ poll = NoPoll
    /\ menu = "idle"

\* A list interface: the command, then _parse_words on its output.  An
\* exception of _run_command leaves the interface without a list.
GetList(name, command) ==
    /\ op = "init"
    /\ \E exc \in BOOLEAN :
           /\ raised' = exc
           /\ words' = IF exc THEN <<>> ELSE ParseWords(arg)
    /\ op' = name
    /\ commands' = <<command>>
    /\ hasWarnings' = FALSE
    /\ warningsBefore' = status.warnings
    /\ UNCHANGED <<status, arg, settings, timer, mainloop, status_label, icon,
                   request, poll, menu>>

\* NordVPN.get_countries
GetCountries == GetList("get_countries", <<"n", "o", "r", "d", "v", "p", "n", " ", "c", "o", "u", "n", "t", "r", "i", "e", "s">>)

\* NordVPN.get_groups
GetGroups == GetList("get_groups", <<"n", "o", "r", "d", "v", "p", "n", " ", "g", "r", "o", "u", "p", "s">>)

\* NordVPN.get_cities
GetCities ==
    \E country \in {<<"a", " ", "a">>, <<"a", "1">>} :
        GetList("get_cities",
                <<"n", "o", "r", "d", "v", "p", "n", " ", "c", "i", "t", "i", "e", "s", " ">> \o Replace(country, " ", "_"))

WordsNext ==
    \/ GetCountries
    \/ GetGroups
    \/ GetCities

WordsSpec == WordsInit /\ [][WordsNext]_vars

\* The operations that return a list of words.
ListOps == {"get_countries", "get_groups", "get_cities"}

\* The positions of raw where a run of two or more word characters starts.
TokenStarts(raw) ==
    {i \in 1..Len(raw) :
        /\ IsWordChar(raw[i])
        /\ i = 1 \/ ~IsWordChar(raw[i - 1])
        /\ i < Len(raw) /\ IsWordChar(raw[i + 1])}

\* The token of raw that starts at position i.
TokenAt(raw, i) ==
    SubSeq(raw, i, CHOOSE e \in i..Len(raw) :
                       /\ \A j \in i..e : IsWordChar(raw[j])
                       /\ e = Len(raw) \/ ~IsWordChar(raw[e + 1]))

\* The list is in ascending order.
IsSortedList(list) ==
    \A i \in 1..(Len(list) - 1) : ~StrLess(list[i + 1], list[i])

\* The list holds one entry per occurrence of a token of two or more
\* characters, with the token's underscores replaced by spaces.
OneEntryPerToken(list, raw) ==
    \A w \in {Replace(TokenAt(raw, i), "_", " ") : i \in TokenStarts(raw)}
             \cup {list[i] : i \in 1..Len(list)} :
        Cardinality({i \in 1..Len(list) : list[i] = w})
            = Cardinality({i \in TokenStarts(raw) :
                              Replace(TokenAt(raw, i), "_", " ") = w})

\* C12: for every output of a list command, the list the list interface
\* returns is sorted lexicographically, holds one entry per occurrence of a
\* token of two or more characters, and has no underscore in any entry.
C12_SortedWords ==
    (op \in ListOps /\ ~raised) =>
        /\ IsSortedList(words)
        /\ OneEntryPerToken(words, arg.str)
        /\ \A i \in 1..Len(words) : \A j \in 1..Len(words[i]) :
               words[i][j] # "_"

(***************************************************************************)
(* The timer thread and the GTK thread                                     *)
(*                                                                         *)
(* threading.Timer runs status_check_loop on a thread of its own while the *)
(* GTK thread runs the menu callbacks and quit; no lock guards the status  *)
(* object.  Here the poll is taken statement by statement, and a menu      *)
(* callback command by command, so that the two threads interleave.        *)
(***************************************************************************)
\* History of a step of the timer thread that ends status_check_loop.
PollRan(text, exc) ==
    /\ op' = "status_check_loop"
    /\ arg' = text
    /\ raised' = exc
    /\ hasWarnings' = FALSE
    /\ warningsBefore' = status.warnings
    /\ settings' = NoSettings
    /\ UNCHANGED <<request, commands, words, menu>>

\* A step of the timer thread inside status_check_loop.
PollStep ==
    UNCHANGED <<op, arg, raised, hasWarnings, warningsBefore, settings,
                request, commands, words, menu>>

\* Outputs of 'nordvpn status' while the two threads run.
PollOutputs ==
    { <<"Status", ":", " ", "Connected", "\n",
        "Current", " ", "server", ":", " ", "us123", "\n",
        "Country", ":", " ", "United", " ", "States", "\n">>,
      <<"Status", ":", " ", "Disconnected", "\r", "\n">> }

\* Outputs of 'nordvpn connect' / 'nordvpn disconnect' while the two threads
\* run: no warning, the login warning, the update warning.
MenuOutputs ==
    { <<"You", " ", "are", " ", "connected", " ", "to", " ", "us123", "\n">>,
      LOGIN_WARNING \o <<"\n">>,
      UPDATE_WARNING \o <<"\n", "You", " ", "are", " ", "connected">> }

\* The armed timer expires: its thread enters status_check_loop,
\* Indicator.update, get_status and _status_check, which runs
\* 'nordvpn status' and strips the output.  An exception ends the thread.
PollBegin ==
    /\ timer = "armed"
    /\ poll.pc = "idle"
    /\ timer' = "fired"
    /\ \E run \in RunCommand(PollOutputs) :
           IF run.raised
           THEN /\ poll' = NoPoll
                /\ PollRan(None, TRUE)
           ELSE /\ poll' = [NoPoll EXCEPT !.pc = "update",
                                          !.raw = Strip(run.output)]
                /\ PollStep
    /\ UNCHANGED <<status, mainloop, status_label, icon>>

\* NordVPNStatus.update: the raw text is saved and len(self.warnings) > 0 is
\* evaluated.
PollTest ==
    /\ poll.pc = "update"
    /\ status' = [status EXCEPT !.raw_status = Some(poll.raw)]
    /\ poll' = [poll EXCEPT
                  !.pc = IF BagCardinality(status.warnings) > 0
                         THEN "join" ELSE "parse",
                  !.tested = status.warnings]
    /\ PollStep
    /\ UNCHANGED <<timer, mainloop, status_label, icon>>

\* NordVPNStatus.update, the warning branch: sorted(self.warnings) reads the
\* warnings as they are now.
PollJoin ==
    /\ poll.pc = "join"
    /\ status' = [status EXCEPT
                    !.raw_status = Some(Join(status.raw_status.str,
                                             Sorted(status.warnings))),
                    !.data = [status.data EXCEPT !["STATUS"] = WAITING]]
    /\ poll' = [poll EXCEPT !.pc = "label", !.appended = status.warnings]
    /\ PollStep
    /\ UNCHANGED <<timer, mainloop, status_label, icon>>

\* NordVPNStatus.update, the parse loop.
PollParse ==
    /\ poll.pc = "parse"
    /\ status' = [status EXCEPT
                    !.data = ParseLoop(ParamOrder, status.data,
                                       Some(poll.raw), 1)]
    /\ poll' = [poll EXCEPT !.pc = "label"]
    /\ PollStep
    /\ UNCHANGED <<timer, mainloop, status_label, icon>>

\* The rest of Indicator.update (label and icon), then status_check_loop
\* makes and starts the next Timer.
PollArm ==
    /\ poll.pc = "label"
    /\ status_label' = status.raw_status
    /\ icon' = GetIconPath(status.data["STATUS"])
    /\ timer' = "armed"
    /\ poll' = NoPoll
    /\ PollRan(None, FALSE)
    /\ UNCHANGED <<status, mainloop>>

\* The connect interface a menu callback calls after disconnect(None).
CallbackNames ==
    {"auto_connect_cb", "country_connect_cb", "group_connect_cb",
     "city_connect_cb"}

ConnectOf(name) ==
    CASE name = "auto_connect_cb"    -> "connect"
      [] name = "country_connect_cb" -> "connect_to_country"
      [] name = "group_connect_cb"   -> "connect_to_group"
      [] name = "city_connect_cb"    -> "connect_to_city"

\* One connection interface called by a menu callback.
CallbackCommand(name, run, then) ==
    /\ status' = IF run.raised THEN status
                 ELSE WarningsAfter(status, run.output)
    /\ op' = name
    /\ arg' = None
    /\ raised' = run.raised
    /\ hasWarnings' = IF run.raised THEN FALSE
                      ELSE OutputHasWarnings(status, run.output).result
    /\ warningsBefore' = status.warnings
    /\ settings' = NoSettings
    /\ menu' = then
    /\ UNCHANGED <<timer, mainloop, status_label, icon, request, commands,
                   words, poll>>

\* A menu callback starts on the GTK thread: disconnect(None).  An exception
\* ends the callback.
CallbackDisconnect ==
    /\ mainloop = "running"
    /\ menu = "idle"
    /\ \E name \in CallbackNames, run \in RunCommand(MenuOutputs) :
           CallbackCommand("disconnect", run,
                           IF run.raised THEN "idle" ELSE name)

\* The menu callback goes on: its connect interface.
CallbackConnect ==
    /\ menu # "idle"
    /\ \E run \in RunCommand(MenuOutputs) :
           CallbackCommand(ConnectOf(menu), run, "idle")

\* The menu item 'Disconnect', when the GTK thread is free.
MenuDisconnect ==
    /\ mainloop = "running"
    /\ menu = "idle"
    /\ \E run \in RunCommand(MenuOutputs) :
           CallbackCommand("disconnect", run, "idle")

\* The menu item 'Quit', when the GTK thread is free.
MenuQuit ==
    /\ menu = "idle"
    /\ Quit

ThreadsNext ==
    \/ Start
    \/ PollBegin
    \/ PollTest
    \/ PollJoin
    \/ PollParse
    \/ PollArm
    \/ CallbackDisconnect
    \/ CallbackConnect
    \/ MenuDisconnect
    \/ MenuQuit

ThreadsSpec == Init /\ [][ThreadsNext]_vars

\* C13: a status poll on the timer thread is consistent with the warning
\* set: when update() has gone through the warning branch the warnings it
\* joined to raw_status are the non-empty warning set its test saw, and while
\* it is on the parsing branch the warning set is empty.
C13_PollConsistent ==
    /\ (poll.pc = "label" /\ poll.tested # EmptyBag) =>
           poll.appended = poll.tested
    /\ poll.pc = "parse" => status.warnings = EmptyBag

\* C14: once quit() has run no timer is armed, so no status poll starts.
C14_NoPollAfterQuit ==
    mainloop = "quit" => timer # "armed"

====
